---------------------------- MODULE Spec2Model ----------------------------
(***************************************************************************)
(* Model of the loan-application processor (src/app.py): the pure          *)
(* functions combine_extracted_data and analyze_risk, the extraction       *)
(* call, the persistence call, and the button handler of main() that       *)
(* sequences them inside one Streamlit session.                            *)
(*                                                                         *)
(* Python values are tagged records, one payload field per tag:            *)
(*   None  [t |-> "none"]          bool  [t |-> "bool", b |-> BOOLEAN]     *)
(*   num   [t |-> "num", c |-> hundredths]   (3000 is c = 300000)          *)
(*   frac  [t |-> "frac", p |-> Int, q |-> Int]  a float quotient p/q      *)
(*   str   [t |-> "str", s |-> tuple of one-character strings]             *)
(*   list  [t |-> "list", l |-> tuple of values]                           *)
(*   dict  [t |-> "dict", d |-> function from keys to values]              *)
(* A call either returns or raises:                                        *)
(*   [kind |-> "return", value |-> v]                                      *)
(*   [kind |-> "raise", exc |-> name, line |-> source line]                *)
(* Money inputs are whole euros, so x * 0.7 and x * 0.02 are exact in      *)
(* hundredths.                                                             *)
(***************************************************************************)
EXTENDS Integers, Sequences, FiniteSets, TLC

\* ------------------------------------------------------------------ bounds
MaxRuns == 2

\* ----------------------------------------------------------- Python values
None == [t |-> "none"]
Bool(b) == [t |-> "bool", b |-> b]
Num(c) == [t |-> "num", c |-> c]
Whole(n) == [t |-> "num", c |-> n * 100]
Frac(p, q) == [t |-> "frac", p |-> p, q |-> q]
Str(s) == [t |-> "str", s |-> s]
List(l) == [t |-> "list", l |-> l]
Dict(d) == [t |-> "dict", d |-> d]
EmptyDict == Dict(<<>>)
\* a Streamlit UploadedFile
File(name) == [t |-> "file", name |-> name]

Return(v) == [kind |-> "return", value |-> v]
\* line is the source line the exception is raised at, 0 inside a library
RaiseAt(e, line) == [kind |-> "raise", exc |-> e, line |-> line]
Raise(e) == RaiseAt(e, 0)
IsReturn(r) == r.kind = "return"
IsRaise(r) == r.kind = "raise"
\* an exception of a library call, seen at the source line that made the call
AtLine(r, line) == IF IsRaise(r) THEN RaiseAt(r.exc, line) ELSE r
\* "except ...: raise Exception(...)" at the given line
Reraise(r, exc, line) == IF IsRaise(r) THEN RaiseAt(exc, line) ELSE r

IsNone(v) == v.t = "none"
IsNum(v) == v.t = "num"
IsStr(v) == v.t = "str"
IsList(v) == v.t = "list"
IsDict(v) == v.t = "dict"

\* bool(v)
Truthy(v) ==
    CASE v.t = "none" -> FALSE
      [] v.t = "bool" -> v.b
      [] v.t = "num" -> v.c /= 0
      [] v.t = "frac" -> v.p /= 0
      [] v.t = "str" -> Len(v.s) > 0
      [] v.t = "list" -> Len(v.l) > 0
      [] v.t = "dict" -> DOMAIN v.d /= {}
      [] v.t = "file" -> TRUE

\* d.get(k, default) on a dict
Get(v, k, default) == IF k \in DOMAIN v.d THEN v.d[k] ELSE default

\* string literals of the source
S_empty == Str(<<>>)
S_Unknown == Str(<<"U", "n", "k", "n", "o", "w", "n">>)
S_unknown == Str(<<"u", "n", "k", "n", "o", "w", "n">>)
S_HIGH == Str(<<"H", "I", "G", "H">>)
S_MEDIUM == Str(<<"M", "E", "D", "I", "U", "M">>)
S_LOW == Str(<<"L", "O", "W">>)
S_REJECT == Str(<<"R", "E", "J", "E", "C", "T">>)
S_APPROVE == Str(<<"A", "P", "P", "R", "O", "V", "E">>)
S_MANUAL_REVIEW == Str(<<"M", "A", "N", "U", "A", "L", "_", "R", "E", "V", "I", "E", "W">>)
S_SYSTEM_ERROR == Str(<<"S", "Y", "S", "T", "E", "M", "_", "E", "R", "R", "O", "R">>)
S_high == Str(<<"h", "i", "g", "h">>)
S_Retry == Str(<<"R", "e", "t", "r", "y", " ", "a", "n", "a", "l", "y", "s", "i", "s">>)
S_Contact == Str(<<"C", "o", "n", "t", "a", "c", "t", " ", "I", "T", " ", "s", "u", "p", "p", "o", "r", "t">>)

\* ------------------------------------------- datetime.strptime(s, "%Y-%m-%d")
Digits == {"0", "1", "2", "3", "4", "5", "6", "7", "8", "9"}
DigitVal(ch) ==
    CASE ch = "0" -> 0 [] ch = "1" -> 1 [] ch = "2" -> 2 [] ch = "3" -> 3
      [] ch = "4" -> 4 [] ch = "5" -> 5 [] ch = "6" -> 6 [] ch = "7" -> 7
      [] ch = "8" -> 8 [] ch = "9" -> 9

At(s, i) == IF i >= 1 /\ i <= Len(s) THEN s[i] ELSE "EOS"
IsDigitAt(s, i) == At(s, i) \in Digits

\* %m is (1[0-2]|0[1-9]|[1-9]); the literal "-" follows it in the pattern,
\* so an alternative counts only when a "-" comes right after it.
\* The result is the number of characters taken, 0 when none matches.
MonthWidth(s, i) ==
    LET two == \/ (At(s, i) = "1" /\ At(s, i + 1) \in {"0", "1", "2"})
               \/ (At(s, i) = "0" /\ At(s, i + 1) \in (Digits \ {"0"}))
        one == At(s, i) \in (Digits \ {"0"})
    IN  IF two /\ At(s, i + 2) = "-" THEN 2
        ELSE IF one /\ At(s, i + 1) = "-" THEN 1
        ELSE 0

\* %d is (3[0-1]|[1-2]\d|0[1-9]|[1-9]| [1-9]); nothing follows it in the
\* pattern, so the first alternative that matches is taken.
DayWidth(s, i) ==
    IF At(s, i) = "3" /\ At(s, i + 1) \in {"0", "1"} THEN 2
    ELSE IF At(s, i) \in {"1", "2"} /\ IsDigitAt(s, i + 1) THEN 2
    ELSE IF At(s, i) = "0" /\ At(s, i + 1) \in (Digits \ {"0"}) THEN 2
    ELSE IF At(s, i) \in (Digits \ {"0"}) THEN 1
    ELSE IF At(s, i) = " " /\ At(s, i + 1) \in (Digits \ {"0"}) THEN 2
    ELSE 0

NumberAt(s, i, w) ==
    IF w = 1 THEN DigitVal(s[i])
    ELSE (IF s[i] = " " THEN 0 ELSE DigitVal(s[i]) * 10) + DigitVal(s[i + 1])

IsLeap(y) == (y % 4 = 0) /\ ((y % 100 /= 0) \/ (y % 400 = 0))
DaysInMonth(y, m) ==
    IF m = 2 THEN (IF IsLeap(y) THEN 29 ELSE 28)
    ELSE IF m \in {4, 6, 9, 11} THEN 30 ELSE 31

\* strptime on a value: TypeError for a non-str argument, ValueError when
\* the text does not match, leaves unconverted data or is no calendar date.
strptime(v) ==
    IF ~IsStr(v) THEN Raise("TypeError")
    ELSE
      LET s == v.s
          yOk == \A i \in 1..4 : IsDigitAt(s, i)
          mw == MonthWidth(s, 6)
          dw == DayWidth(s, 7 + mw)
      IN  IF ~yOk \/ At(s, 5) /= "-" \/ mw = 0 \/ dw = 0 THEN Raise("ValueError")
          ELSE IF Len(s) /= 6 + mw + dw THEN Raise("ValueError")
          ELSE
            LET y == DigitVal(s[1]) * 1000 + DigitVal(s[2]) * 100
                     + DigitVal(s[3]) * 10 + DigitVal(s[4])
                m == NumberAt(s, 6, mw)
                d == NumberAt(s, 7 + mw, dw)
            IN  IF y < 1 \/ d > DaysInMonth(y, m) THEN Raise("ValueError")
                ELSE Return([year |-> y, month |-> m, day |-> d])

\* ------------------------------------------------- combine_extracted_data
\* x * 0.7
MulSeventy(v) ==
    CASE v.t = "num" -> Return(Num((v.c * 7) \div 10))
      [] v.t = "bool" -> Return(Num(IF v.b THEN 70 ELSE 0))
      [] OTHER -> Raise("TypeError")

\* employment_months_of with "except ValueError:" for the bare except
employment_months_value_error_only(employment_start, today) ==
    IF Truthy(employment_start)
    THEN LET start_date == strptime(employment_start)
         IN  IF IsRaise(start_date)
             THEN (IF start_date.exc = "ValueError" THEN Return(0) ELSE start_date)
             ELSE Return((today.year - start_date.value.year) * 12
                         + (today.month - start_date.value.month))
    ELSE Return(0)

\* lines 187-196: the employment duration in months.  The bare except
\* catches whatever strptime raises.
employment_months_of(employment_start, today) ==
    IF Truthy(employment_start)
    THEN LET start_date == strptime(employment_start)
         IN  IF IsRaise(start_date) THEN Return(0)
             ELSE Return((today.year - start_date.value.year) * 12
                         + (today.month - start_date.value.month))
    ELSE Return(0)

combine_extracted_data(identity_data, income_data, bank_data, today) ==
    IF ~IsDict(identity_data) \/ ~IsDict(income_data) THEN RaiseAt("AttributeError", 185)
    ELSE
      LET full_name == Get(identity_data, "full_name",
                           Get(income_data, "applicant_name", S_Unknown))
          employment_start == Get(income_data, "employment_start_date", S_empty)
          employment_months == employment_months_of(employment_start, today)
          net_default == MulSeventy(Get(income_data, "monthly_gross_income", Whole(0)))
      IN  IF IsRaise(employment_months) THEN AtLine(employment_months, 192)
          ELSE IF IsRaise(net_default) THEN AtLine(net_default, 207)
          ELSE IF Truthy(bank_data) /\ ~IsDict(bank_data) THEN RaiseAt("AttributeError", 216)
          ELSE
            LET combined ==
                  [full_name |-> full_name,
                   date_of_birth |-> Get(identity_data, "date_of_birth", S_empty),
                   document_number |-> Get(identity_data, "document_number", S_empty),
                   address |-> Get(identity_data, "address", S_empty),
                   employer_name |-> Get(income_data, "employer_name", S_empty),
                   job_title |-> Get(income_data, "job_title", S_empty),
                   monthly_gross_income |-> Get(income_data, "monthly_gross_income", Whole(0)),
                   monthly_net_income |-> Get(income_data, "monthly_net_income", net_default.value),
                   employment_start_date |-> employment_start,
                   employment_months |-> Whole(employment_months.value),
                   contract_type |-> Get(income_data, "contract_type", S_unknown)]
                bank ==
                  IF Truthy(bank_data)
                  THEN [average_balance |-> Get(bank_data, "average_balance", Whole(0)),
                        total_expenses |-> Get(bank_data, "total_expenses", Whole(0)),
                        recurring_loan_payments |-> Get(bank_data, "recurring_loan_payments", Whole(0)),
                        overdraft_occurrences |-> Get(bank_data, "overdraft_occurrences", Whole(0))]
                  ELSE [average_balance |-> None,
                        total_expenses |-> None,
                        recurring_loan_payments |-> Whole(0),
                        overdraft_occurrences |-> None]
            IN  Return(Dict(combined @@ bank))


\* ------------------------------------------------------------ analyze_risk
\* Python operators on values, as far as analyze_risk uses them.
IsNumeric(v) == v.t \in {"num", "bool"}
Hundredths(v) == IF v.t = "bool" THEN (IF v.b THEN 100 ELSE 0) ELSE v.c

\* a + b with b a float
PyAdd(a, b) ==
    IF IsNumeric(a) THEN Return(Num(Hundredths(a) + Hundredths(b)))
    ELSE Raise("TypeError")

\* a > 0
PyPositive(a) ==
    IF IsNumeric(a) THEN Return(Hundredths(a) > 0) ELSE Raise("TypeError")

\* the characters of a key
KeyChars(key) ==
    CASE key = "choices" -> <<"c", "h", "o", "i", "c", "e", "s">>
      [] key = "pages" -> <<"p", "a", "g", "e", "s">>
      [] key = "images" -> <<"i", "m", "a", "g", "e", "s">>
      [] key = "markdown" -> <<"m", "a", "r", "k", "d", "o", "w", "n">>
      [] key = "image_annotation" -> <<"i", "m", "a", "g", "e", "_", "a", "n", "n",
                                       "o", "t", "a", "t", "i", "o", "n">>

\* key in v, for a string key
PyIn(key, v) ==
    CASE v.t = "dict" -> Return(key \in DOMAIN v.d)
      [] v.t = "list" -> Return(\E i \in 1..Len(v.l) : v.l[i] = Str(KeyChars(key)))
      [] v.t = "str" -> Return(\E i \in 1..Len(v.s) :
                                 LET j == i + Len(KeyChars(key)) - 1
                                 IN  j <= Len(v.s) /\ SubSeq(v.s, i, j) = KeyChars(key))
      [] OTHER -> Raise("TypeError")

\* v[key] for a string key
PyItem(v, key) ==
    CASE v.t = "dict" -> IF key \in DOMAIN v.d THEN Return(v.d[key]) ELSE Raise("KeyError")
      [] OTHER -> Raise("TypeError")

\* len(v)
PyLen(v) ==
    CASE v.t = "list" -> Return(Len(v.l))
      [] v.t = "str" -> Return(Len(v.s))
      [] v.t = "dict" -> Return(Cardinality(DOMAIN v.d))
      [] OTHER -> Raise("TypeError")

\* v[0], asked only of a value whose len is > 0
PyFirst(v) ==
    CASE v.t = "list" -> Return(v.l[1])
      [] v.t = "str" -> Return(Str(<<v.s[1]>>))
      [] v.t = "dict" -> Raise("KeyError")
      [] OTHER -> Raise("TypeError")

\* a subscript applied to what the expression before it came to, as in
\* result["choices"][0]["message"]: a raise ends the chain
Item(r, key) == IF IsRaise(r) THEN r ELSE PyItem(r.value, key)
First(r) == IF IsRaise(r) THEN r ELSE PyFirst(r.value)

\* len(v) > 0
NonEmpty(v) == IF IsRaise(PyLen(v)) THEN PyLen(v) ELSE Return(PyLen(v).value > 0)

\* key in v and len(v[key]) > 0
HasSome(key, v) ==
    LET has == PyIn(key, v)
        item == PyItem(v, key)
    IN  IF IsRaise(has) THEN has
        ELSE IF ~has.value THEN Return(FALSE)
        ELSE IF IsRaise(item) THEN item
        ELSE NonEmpty(item.value)

\* The text of a completion is a tuple of characters in which a whole JSON
\* document is one element, named in JsonDocs; no other element can be part
\* of a JSON text.
Whitespace == {" ", "\n"}
\* the backquote character, named because the lexer takes none in a string
Backquote == "BQ"
Fence == <<Backquote, Backquote, Backquote>>
FenceJson == Fence \o <<"j", "s", "o", "n">>

RECURSIVE LStrip(_)
LStrip(s) == IF s /= <<>> /\ Head(s) \in Whitespace THEN LStrip(Tail(s)) ELSE s
RECURSIVE RStrip(_)
RStrip(s) ==
    IF s /= <<>> /\ s[Len(s)] \in Whitespace THEN RStrip(SubSeq(s, 1, Len(s) - 1)) ELSE s
\* s.strip()
Strip(s) == RStrip(LStrip(s))
StartsWith(s, prefix) == Len(s) >= Len(prefix) /\ SubSeq(s, 1, Len(prefix)) = prefix
EndsWith(s, suffix) ==
    Len(s) >= Len(suffix) /\ SubSeq(s, Len(s) - Len(suffix) + 1, Len(s)) = suffix
\* s[n:] and s[:-n]
DropFirst(s, n) == SubSeq(s, n + 1, Len(s))
DropLast(s, n) == SubSeq(s, 1, Len(s) - n)

\* lines 326-333
StripFences(content) ==
    LET c0 == Strip(content)
        c1 == IF StartsWith(c0, FenceJson) THEN DropFirst(c0, 7) ELSE c0
        c2 == IF StartsWith(c1, Fence) THEN DropFirst(c1, 3) ELSE c1
        c3 == IF EndsWith(c2, Fence) THEN DropLast(c2, 3) ELSE c2
    IN  Strip(c3)

Assessment(score, level, recommendation, dti) ==
    Dict([risk_score |-> score, risk_level |-> level,
          debt_to_income_ratio |-> dti, recommendation |-> recommendation])

\* the JSON documents a completion can carry, with the value each parses to
JsonDocs ==
    [approve |-> Assessment(Whole(20), S_LOW, S_APPROVE, Num(17)),
     review |-> Assessment(Whole(55), S_MEDIUM, S_MANUAL_REVIEW, Num(35)),
     reject |-> Assessment(Whole(90), S_HIGH, S_REJECT, Num(60)),
     score150 |-> Assessment(Whole(150), S_LOW, S_APPROVE, Num(17)),
     halfscore |-> Assessment(Num(5050), S_MEDIUM, S_MANUAL_REVIEW, Num(35)),
     badlevel |-> Assessment(Whole(20), S_Unknown, S_APPROVE, Num(17)),
     badrec |-> Assessment(Whole(20), S_LOW, S_unknown, Num(17)),
     emptyobj |-> EmptyDict,
     array |-> List(<<>>),
     null |-> None]

\* json.loads(s): surrounding whitespace is allowed, then exactly one document
json_loads(s) ==
    LET body == Strip(s)
    IN  IF Len(body) = 1 /\ body[1] \in DOMAIN JsonDocs
        THEN Return(JsonDocs[body[1]])
        ELSE Raise("JSONDecodeError")

\* risk_metrics with the requested loan's payment alone as the total debt
risk_metrics_without_existing(combined_data, loan_amount) ==
    LET monthly_income == Get(combined_data, "monthly_gross_income", Whole(0))
        estimated_monthly_payment == Num((loan_amount.c * 2) \div 100)
        positive == PyPositive(monthly_income)
    IN  IF IsRaise(positive) THEN AtLine(positive, 249)
        ELSE Return([estimated_monthly_payment |-> estimated_monthly_payment,
                     total_debt |-> estimated_monthly_payment,
                     dti_ratio |-> IF positive.value
                                   THEN Frac(estimated_monthly_payment.c,
                                             Hundredths(monthly_income))
                                   ELSE Frac(1, 1)])

\* lines 244-249: phase 1, the deterministic metrics
risk_metrics(combined_data, loan_amount) ==
    LET monthly_income == Get(combined_data, "monthly_gross_income", Whole(0))
        existing_loan_payments == Get(combined_data, "recurring_loan_payments", Whole(0))
        estimated_monthly_payment == Num((loan_amount.c * 2) \div 100)
        total_debt == PyAdd(existing_loan_payments, estimated_monthly_payment)
        positive == PyPositive(monthly_income)
    IN  IF IsRaise(total_debt) THEN AtLine(total_debt, 248)
        ELSE IF IsRaise(positive) THEN AtLine(positive, 249)
        ELSE Return([estimated_monthly_payment |-> estimated_monthly_payment,
                     total_debt |-> total_debt.value,
                     dti_ratio |-> IF positive.value
                                   THEN Frac(total_debt.value.c, Hundredths(monthly_income))
                                   ELSE Frac(1, 1)])

\* requests.exceptions.RequestException and its subclasses
RequestExceptions == {"ConnectionError", "Timeout", "HTTPError", "InvalidJSONError"}

\* lines 342-351 and 354-363: the safe default
safe_default(dti_ratio, explanation, message) ==
    Dict([risk_score |-> Whole(100),
          risk_level |-> S_HIGH,
          debt_to_income_ratio |-> dti_ratio,
          recommendation |-> S_REJECT,
          explanation |-> Str(<<explanation>>),
          flags |-> List(<<Dict([flag_type |-> S_SYSTEM_ERROR,
                                 message |-> Str(<<message>>),
                                 severity |-> S_high])>>),
          suggested_actions |-> List(<<S_Retry, S_Contact>>),
          policy_compliance |-> EmptyDict])

\* lines 326-335: content is what line 322 came to
parse_content(content) ==
    IF IsRaise(content) THEN content
    ELSE IF ~IsStr(content.value) THEN RaiseAt("AttributeError", 326)
    ELSE AtLine(json_loads(StripFences(content.value.s)), 335)

\* lines 315-338: the body of the try after the request is built.  reply is
\* what requests.post, raise_for_status and response.json() come to: a
\* raised RequestException or the decoded body.
read_completion(reply) ==
    IF IsRaise(reply) THEN AtLine(reply, 315)
    ELSE LET some == HasSome("choices", reply.value)
         IN  IF IsRaise(some) THEN AtLine(some, 321)
             ELSE IF ~some.value THEN RaiseAt("ValueError", 338)
             ELSE parse_content(
                    AtLine(Item(Item(First(Item(reply, "choices")), "message"), "content"),
                           322))

\* handle_failure without the json.JSONDecodeError clause
handle_failure_api_only(outcome, dti_ratio) ==
    IF IsReturn(outcome) THEN outcome
    ELSE IF outcome.exc \in RequestExceptions
    THEN Return(safe_default(dti_ratio, "Risk analysis failed due to API error",
                             "Risk analysis system unavailable"))
    ELSE outcome

\* lines 340 and 352: the two except clauses
handle_failure(outcome, dti_ratio) ==
    IF IsReturn(outcome) THEN outcome
    ELSE IF outcome.exc \in RequestExceptions
    THEN Return(safe_default(dti_ratio, "Risk analysis failed due to API error",
                             "Risk analysis system unavailable"))
    ELSE IF outcome.exc = "JSONDecodeError"
    THEN Return(safe_default(dti_ratio, "Risk analysis response parsing failed",
                             "Risk analysis parsing error"))
    ELSE outcome

analyze_risk(combined_data, loan_amount, reply) ==
    LET metrics == risk_metrics(combined_data, loan_amount)
    IN  IF IsRaise(metrics) THEN metrics
        ELSE handle_failure(read_completion(reply), metrics.value.dti_ratio)


\* ---------------------------------------------------- extract_document_data
\* the keys of SCHEMAS (lines 44-93)
SCHEMAS == {"identity", "income", "bank_statement"}

S_raw == Str(<<"r", "a", "w">>)
DocumentTypeStr(document_type) ==
    CASE document_type = "identity" -> Str(<<"i", "d", "e", "n", "t", "i", "t", "y">>)
      [] document_type = "income" -> Str(<<"i", "n", "c", "o", "m", "e">>)
      [] OTHER -> Str(<<"b", "a", "n", "k", "_", "s", "t", "a", "t", "e", "m", "e", "n", "t">>)

\* what "for image in images" goes through; the keys of a dict are strings
\* of which only "image_annotation" itself can contain "image_annotation"
Elements(images) ==
    CASE images.t = "list" -> images.l
      [] images.t = "str" -> [i \in 1..Len(images.s) |-> Str(<<images.s[i]>>)]
      [] images.t = "dict" ->
           IF "image_annotation" \in DOMAIN images.d
           THEN <<Str(KeyChars("image_annotation"))>> ELSE <<>>

\* found_annotation without the json.loads of a string annotation
found_annotation_unparsed(a) ==
    IF IsRaise(a) THEN a ELSE Return([found |-> a.value])

\* line 158: a is what image["image_annotation"] came to
found_annotation(a) ==
    IF IsRaise(a) THEN a
    ELSE IF ~IsStr(a.value) THEN Return([found |-> a.value])
    ELSE IF IsRaise(json_loads(a.value.s)) THEN json_loads(a.value.s)
    ELSE Return([found |-> json_loads(a.value.s).value])

\* lines 156-158: the first image, in order, that has an annotation; None
\* when no image has one
RECURSIVE first_annotation(_, _)
first_annotation(images, i) ==
    IF i > Len(images) THEN Return(None)
    ELSE LET has == PyIn("image_annotation", images[i])
         IN  IF IsRaise(has) THEN has
             ELSE IF has.value THEN found_annotation(PyItem(images[i], "image_annotation"))
             ELSE first_annotation(images, i + 1)

\* lines 155-158
page_annotation(page) ==
    LET some == HasSome("images", page)
    IN  IF IsRaise(some) THEN some
        ELSE IF ~some.value THEN Return(None)
        ELSE first_annotation(Elements(PyItem(page, "images").value), 1)

\* lines 161-164
page_markdown(page, document_type) ==
    LET has == PyIn("markdown", page)
        markdown == PyItem(page, "markdown")
    IN  IF IsRaise(has) THEN has
        ELSE IF ~has.value THEN Raise("ValueError")
        ELSE IF IsRaise(markdown) THEN markdown
        ELSE Return(Dict([raw_text |-> markdown.value,
                          document_type |-> DocumentTypeStr(document_type)]))

\* lines 152-162: page is what result["pages"][0] came to
read_page(page, document_type) ==
    IF IsRaise(page) THEN page
    ELSE LET annotated == page_annotation(page.value)
         IN  IF IsRaise(annotated) THEN annotated
             ELSE IF annotated.value /= None THEN Return(annotated.value.found)
             ELSE page_markdown(page.value, document_type)

\* lines 151-164
read_pages(result, document_type) ==
    LET some == HasSome("pages", result)
    IN  IF IsRaise(some) THEN some
        ELSE IF ~some.value THEN Raise("ValueError")
        ELSE read_page(First(Item(Return(result), "pages")), document_type)

\* reply is what requests.post, raise_for_status and response.json() come
\* to.  Both except clauses (lines 166-169) re-raise a plain Exception.
extract_document_data(document_type, reply) ==
    IF document_type \notin SCHEMAS THEN RaiseAt("Exception", 169)
    ELSE IF IsRaise(reply) THEN RaiseAt("Exception", 167)
    ELSE Reraise(read_pages(reply.value, document_type), "Exception", 169)

\* a request is sent unless the document type is unknown (lines 116-118)
extraction_requests(document_type) == IF document_type \in SCHEMAS THEN 1 ELSE 0

\* a service response whose first page carries the record as the annotation
\* of its only image, and one whose first page has markdown only
Annotated(record) ==
    Return(Dict([pages |-> List(<<Dict([images |-> List(<<Dict([image_annotation |-> record])>>),
                                        markdown |-> S_raw])>>)]))
MarkdownOnly == Return(Dict([pages |-> List(<<Dict([markdown |-> S_raw])>>)]))
NoPages == Return(Dict([pages |-> List(<<>>)]))

\* ------------------------------------------------------------ persistence
S_oid1 == Str(<<"o", "i", "d", "1">>)
S_oid2 == Str(<<"o", "i", "d", "2">>)
S_oid3 == Str(<<"o", "i", "d", "3">>)
S_oid4 == Str(<<"o", "i", "d", "4">>)
\* str(result.inserted_id) of the n-th insert
ObjectId(n) ==
    CASE n = 1 -> S_oid1 [] n = 2 -> S_oid2 [] n = 3 -> S_oid3 [] OTHER -> S_oid4

\* lines 376-397: the document as inserted, or the re-raised Exception
save_to_mongodb(application_data, collection, reachable) ==
    IF ~reachable THEN RaiseAt("Exception", 397)
    ELSE Return([inserted |-> application_data @@ [created_at |-> "utcnow"],
                 id |-> ObjectId(Len(collection) + 1)])

\* lines 519-524
generate_download_report(combined_data, risk_assessment) ==
    [timestamp |-> "now", applicant_data |-> combined_data,
     risk_assessment |-> risk_assessment]

\* ------------------------------------------------------------------ inputs
S_Ann == Str(<<"A", "n", "n">>)
S_Bob == Str(<<"B", "o", "b">>)
S_dob == Str(<<"1", "9", "9", "0", "-", "0", "5", "-", "1", "7">>)

\* {} and every one-key dict key: v
Opt(key, values) == {<<>>} \cup {key :> v : v \in values}

\* employment_start_date values
D_2020_01_15 == Str(<<"2", "0", "2", "0", "-", "0", "1", "-", "1", "5">>)
D_2026_11_01 == Str(<<"2", "0", "2", "6", "-", "1", "1", "-", "0", "1">>)
D_2027_01_15 == Str(<<"2", "0", "2", "7", "-", "0", "1", "-", "1", "5">>)
D_2024_02_29 == Str(<<"2", "0", "2", "4", "-", "0", "2", "-", "2", "9">>)
D_2023_02_29 == Str(<<"2", "0", "2", "3", "-", "0", "2", "-", "2", "9">>)
D_2023_02_30 == Str(<<"2", "0", "2", "3", "-", "0", "2", "-", "3", "0">>)
D_2020_13_01 == Str(<<"2", "0", "2", "0", "-", "1", "3", "-", "0", "1">>)
D_2020_1_5 == Str(<<"2", "0", "2", "0", "-", "1", "-", "5">>)
D_0000_01_01 == Str(<<"0", "0", "0", "0", "-", "0", "1", "-", "0", "1">>)
D_compact == Str(<<"2", "0", "2", "0", "0", "1", "1", "5">>)
D_trailing == Str(<<"2", "0", "2", "0", "-", "0", "1", "-", "1", "5", "T">>)
D_words == Str(<<"J", "a", "n", " ", "2", "0", "2", "0">>)

StartDateValues ==
    {D_2020_01_15, D_2026_11_01, D_2027_01_15, D_2024_02_29, D_2023_02_29,
     D_2023_02_30, D_2020_13_01, D_2020_1_5, D_0000_01_01, D_compact,
     D_trailing, D_words, S_empty, None, Whole(2020), Whole(0), Bool(TRUE),
     List(<<D_2020_01_15>>), EmptyDict}

\* the records an extraction can return for each document type
Degraded(document_type) ==
    Dict([raw_text |-> S_raw, document_type |-> DocumentTypeStr(document_type)])

AllIdentityRecords ==
    {Dict(a @@ b) : a \in Opt("full_name", {S_Ann, None}),
                    b \in Opt("date_of_birth", {S_dob})}
      \cup {Degraded("identity")}

AllIncomeRecords ==
    {Dict(a @@ b @@ c @@ d) :
        a \in Opt("applicant_name", {S_Bob}),
        b \in Opt("monthly_gross_income", {Whole(3000), Whole(0), None, Str(<<"3", "0", "0", "0">>)}),
        c \in Opt("monthly_net_income", {Whole(2500), None}),
        d \in Opt("employment_start_date", StartDateValues)}
      \cup {Degraded("income")}

BankFull ==
    Dict([account_holder_name |-> S_Ann, average_balance |-> Whole(12000),
          total_expenses |-> Whole(1800), recurring_loan_payments |-> Whole(200),
          overdraft_occurrences |-> Whole(1)])
BankNullPayments ==
    Dict([account_holder_name |-> S_Ann, average_balance |-> Whole(12000),
          recurring_loan_payments |-> None])
BankHolderOnly == Dict([account_holder_name |-> S_Ann])

AllBankRecords == {None, EmptyDict, BankFull, BankNullPayments, BankHolderOnly,
                   Degraded("bank_statement")}

\* datetime.now(), as far as the code reads it
Today0 == [year |-> 2026, month |-> 11]
Todays == {Today0, [year |-> 2026, month |-> 1], [year |-> 2027, month |-> 3]}

\* the slider (lines 610-617) yields 5000..50000 in steps of 1000
SliderAmounts == {Whole(5000), Whole(15000), Whole(50000)}

\* the replies of the reasoning-model endpoint
Completion(content) ==
    Return(Dict([choices |-> List(<<Dict([message |-> Dict([content |-> content])])>>)]))

Prefixes == {<<>>, <<"\n">>, FenceJson \o <<"\n">>, Fence \o <<"\n">>, FenceJson \o Fence}
Suffixes == {<<>>, <<" ">>, <<"\n">> \o Fence, Fence \o <<"\n">>}
Bodies == {<<d>> : d \in DOMAIN JsonDocs}
            \cup {<<>>, <<"x">>, <<"approve", "x">>, <<"approve", "reject">>, <<"j", "s", "o", "n">>}
Contents == {Str(a \o b \o c) : a \in Prefixes, b \in Bodies, c \in Suffixes}

MalformedReplies ==
    {Return(None),
     Return(EmptyDict),
     Return(List(<<>>)),
     Return(Dict([choices |-> List(<<>>)])),
     Return(Dict([choices |-> None])),
     Return(Dict([choices |-> List(<<EmptyDict>>)])),
     Return(Dict([choices |-> List(<<Dict([message |-> None])>>)])),
     Return(Dict([choices |-> List(<<Dict([message |-> EmptyDict])>>)])),
     Completion(None)}

TransportFailures == {Raise(e) : e \in RequestExceptions}

AllModelReplies ==
    TransportFailures \cup MalformedReplies \cup {Completion(c) : c \in Contents}

\* the replies a session run draws from
IdentityGood == Dict([full_name |-> S_Ann, date_of_birth |-> S_dob])
IncomeGood ==
    Dict([applicant_name |-> S_Ann, monthly_gross_income |-> Whole(3000),
          employment_start_date |-> D_2020_01_15])
IncomeNullGross ==
    Dict([applicant_name |-> S_Ann, monthly_gross_income |-> None,
          employment_start_date |-> D_2020_01_15])

RunIdentityReplies == {Raise("Timeout"), Annotated(IdentityGood), Annotated(List(<<>>))}
RunIncomeReplies ==
    {Raise("HTTPError"), NoPages, Annotated(IncomeGood), Annotated(IncomeNullGross)}
RunBankReplies == {Raise("ConnectionError"), Annotated(BankFull), Annotated(BankNullPayments)}
RunModelReplies ==
    {Raise("Timeout"),
     Return(Dict([choices |-> List(<<>>)])),
     Completion(Str(<<"x">>)),
     Completion(Str(FenceJson \o <<"\n", "approve", "\n">> \o Fence)),
     Completion(Str(<<"score150">>)),
     Completion(Str(<<"array">>))}

\* ------------------------------------------------------------------- state
VARIABLES
    uploader,        \* the file each st.file_uploader widget holds, or None
    session_state,   \* st.session_state
    pc,              \* the stage the button handler of main() is at
    today,           \* datetime.now()
    loan_amount,     \* the slider's value when the button was pressed
    identity_data, income_data, bank_data, combined_data, risk_assessment,
    application_id,  \* locals of the button handler
    error,           \* the exception caught at line 690, with its stage
    model_request,   \* per run: the metrics in the prompt sent to the model
    model_reply,     \* per run: what that request came to
    document_reply,  \* per run: what the last extraction request came to
    collection,      \* the MongoDB collection, in insertion order
    run,             \* number of runs started in the session
    calls,           \* per run: calls and requests made so far
    stages           \* per run: the stages entered, in order

vars == <<uploader, session_state, pc, today, loan_amount, identity_data,
          income_data, bank_data, combined_data, risk_assessment,
          application_id, error, model_request, model_reply, document_reply,
          collection, run, calls, stages>>

locals == <<identity_data, income_data, bank_data, combined_data,
            risk_assessment, application_id>>

Slots == {"identity", "income", "bank"}
Resting == {"Idle", "Complete", "Failed"}
NoCalls == [extraction |-> 0, combine |-> 0, model |-> 0, save |-> 0]

\* lines 545-558
InitialSessionState ==
    [identity_file |-> None, income_file |-> None, bank_file |-> None,
     processing_complete |-> FALSE, combined_data |-> None,
     risk_assessment |-> None, application_id |-> None]

Init ==
    /\ uploader = [slot \in Slots |-> None]
    /\ session_state = InitialSessionState
    /\ pc = "Idle"
    /\ today = Today0
    /\ loan_amount = Whole(15000)
    /\ identity_data = None /\ income_data = None /\ bank_data = None
    /\ combined_data = None /\ risk_assessment = None /\ application_id = None
    /\ error = None
    /\ model_request = None /\ model_reply = None /\ document_reply = None
    /\ collection = <<>>
    /\ run = 0
    /\ calls = NoCalls
    /\ stages = <<>>

\* lines 566-606: each widget's file is copied to the session state when
\* the widget holds one
sync_uploads(state, widgets) ==
    [state EXCEPT
       !.identity_file = IF Truthy(widgets["identity"]) THEN widgets["identity"] ELSE @,
       !.income_file = IF Truthy(widgets["income"]) THEN widgets["income"] ELSE @,
       !.bank_file = IF Truthy(widgets["bank"]) THEN widgets["bank"] ELSE @]

\* line 621
can_process(state) == ~IsNone(state.identity_file) /\ ~IsNone(state.income_file)

\* line 699: the results and the download button are rendered
results_shown(state) ==
    /\ state.processing_complete
    /\ Truthy(state.combined_data)
    /\ Truthy(state.risk_assessment)

\* the user puts a file into a widget; the script reruns without the button
Upload(slot) ==
    /\ pc \in Resting
    /\ uploader[slot] = None
    /\ uploader' = [uploader EXCEPT ![slot] = File(slot)]
    /\ session_state' = sync_uploads(session_state, uploader')
    /\ UNCHANGED <<pc, today, loan_amount, locals, error, model_request, model_reply,
                   document_reply, collection, run, calls, stages>>

\* the user clears a widget; the script reruns without the button
Remove(slot) ==
    /\ pc \in Resting
    /\ uploader[slot] /= None
    /\ uploader' = [uploader EXCEPT ![slot] = None]
    /\ session_state' = sync_uploads(session_state, uploader')
    /\ UNCHANGED <<pc, today, loan_amount, locals, error, model_request, model_reply,
                   document_reply, collection, run, calls, stages>>

\* line 623: the button is pressed; the script reruns and enters the try
Click ==
    /\ pc \in Resting
    /\ can_process(session_state)
    /\ run < MaxRuns
    /\ run' = run + 1
    /\ session_state' = sync_uploads(session_state, uploader)
    /\ \E amount \in {Whole(15000)} : loan_amount' = amount
    /\ pc' = "ExtractIdentity"
    /\ identity_data' = None /\ income_data' = None /\ bank_data' = None
    /\ combined_data' = None /\ risk_assessment' = None /\ application_id' = None
    /\ error' = None
    /\ model_request' = None /\ model_reply' = None /\ document_reply' = None
    /\ calls' = NoCalls
    /\ stages' = <<"ExtractIdentity">>
    /\ UNCHANGED <<uploader, today, collection>>

\* Fail as a handler that reports the error and goes on to combine
FailAndContinue(raised) ==
    /\ pc' = "Combine"
    /\ error' = [stage |-> pc, exc |-> raised.exc, line |-> raised.line]
    /\ stages' = Append(stages, "Combine")

\* Fail as a handler that runs the failed stage again
FailAndRetry(raised) ==
    /\ pc' = pc
    /\ error' = [stage |-> pc, exc |-> raised.exc, line |-> raised.line]
    /\ stages' = Append(stages, pc)

\* lines 690-696: the except clause of the handler
Fail(raised) ==
    /\ pc' = "Failed"
    /\ error' = [stage |-> pc, exc |-> raised.exc, line |-> raised.line]
    /\ stages' = Append(stages, "Failed")

Goto(stage) ==
    /\ pc' = stage
    /\ error' = error
    /\ stages' = Append(stages, stage)

\* f"{v:,.2f}" (line 639): only numbers take the format
FormatMoney(v) ==
    CASE IsNumeric(v) -> Return(v)
      [] v.t = "str" -> RaiseAt("ValueError", 639)
      [] OTHER -> RaiseAt("TypeError", 639)

\* v.get(...) in the f-string of the given line (632, 639, 648, 662)
ShowFields(v, line) == IF IsDict(v) THEN Return(v) ELSE RaiseAt("AttributeError", line)

\* lines 629-634: step 1
ExtractIdentity ==
    /\ pc = "ExtractIdentity"
    /\ \E reply \in RunIdentityReplies :
         LET r == extract_document_data("identity", reply)
             shown == IF IsRaise(r) THEN r ELSE ShowFields(r.value, 632)
         IN  /\ calls' = [calls EXCEPT !.extraction = @ + extraction_requests("identity")]
             /\ document_reply' = reply
             /\ identity_data' = IF IsReturn(r) THEN r.value ELSE identity_data
             /\ IF IsRaise(shown) THEN Fail(shown) ELSE Goto("ExtractIncome")
    /\ UNCHANGED <<uploader, session_state, today, loan_amount, income_data, bank_data,
                   combined_data, risk_assessment, application_id, model_request, model_reply,
                   collection, run>>

\* lines 636-645: step 2, then the choice of step 3
ExtractIncome ==
    /\ pc = "ExtractIncome"
    /\ \E reply \in RunIncomeReplies :
         LET r == extract_document_data("income", reply)
             fields == IF IsRaise(r) THEN r ELSE ShowFields(r.value, 639)
             shown == IF IsRaise(fields) THEN fields
                      ELSE FormatMoney(Get(r.value, "monthly_gross_income", Whole(0)))
         IN  /\ calls' = [calls EXCEPT !.extraction = @ + extraction_requests("income")]
             /\ document_reply' = reply
             /\ income_data' = IF IsReturn(r) THEN r.value ELSE income_data
             /\ IF IsRaise(shown) THEN Fail(shown)
                ELSE IF Truthy(session_state.bank_file) THEN Goto("ExtractBank")
                ELSE Goto("Combine")
    /\ bank_data' = None
    /\ UNCHANGED <<uploader, session_state, today, loan_amount, identity_data,
                   combined_data, risk_assessment, application_id, model_request, model_reply,
                   collection, run>>

\* lines 645-650: step 3, taken when the session holds a bank file
ExtractBankWith(replies) ==
    /\ pc = "ExtractBank"
    /\ \E reply \in replies :
         LET r == extract_document_data("bank_statement", reply)
             shown == IF IsRaise(r) THEN r ELSE ShowFields(r.value, 648)
         IN  /\ calls' = [calls EXCEPT !.extraction = @ + extraction_requests("bank_statement")]
             /\ document_reply' = reply
             /\ bank_data' = IF IsReturn(r) THEN r.value ELSE bank_data
             /\ IF IsRaise(shown) THEN Fail(shown) ELSE Goto("Combine")
    /\ UNCHANGED <<uploader, session_state, today, loan_amount, identity_data, income_data,
                   combined_data, risk_assessment, application_id, model_request, model_reply,
                   collection, run>>

ExtractBank == ExtractBankWith(RunBankReplies)

\* lines 652-657: step 4
Combine ==
    /\ pc = "Combine"
    /\ LET r == combine_extracted_data(identity_data, income_data, bank_data, today)
       IN  /\ calls' = [calls EXCEPT !.combine = @ + 1]
           /\ combined_data' = IF IsReturn(r) THEN r.value ELSE combined_data
           /\ IF IsRaise(r) THEN Fail(r) ELSE Goto("Score")
    /\ UNCHANGED <<uploader, session_state, today, loan_amount, identity_data, income_data,
                   bank_data, risk_assessment, application_id, model_request, model_reply,
                   document_reply, collection, run>>

\* lines 659-664: step 5.  The request goes out once phase 1 has passed.
ScoreWith(replies) ==
    /\ pc = "Score"
    /\ \E reply \in replies :
         LET r == analyze_risk(combined_data, loan_amount, reply)
             shown == IF IsRaise(r) THEN r ELSE ShowFields(r.value, 662)
             sent == IF IsReturn(risk_metrics(combined_data, loan_amount)) THEN 1 ELSE 0
             metrics == risk_metrics(combined_data, loan_amount)
         IN  /\ calls' = [calls EXCEPT !.model = @ + sent]
             /\ model_request' = IF sent = 1 THEN metrics.value ELSE None
             /\ model_reply' = IF sent = 1 THEN reply ELSE None
             /\ risk_assessment' = IF IsReturn(r) THEN r.value ELSE risk_assessment
             /\ IF IsRaise(shown) THEN Fail(shown) ELSE Goto("ReadyToPersist")
    /\ UNCHANGED <<uploader, session_state, today, loan_amount, identity_data, income_data,
                   bank_data, combined_data, application_id, document_reply, collection,
                   run>>

Score == ScoreWith(RunModelReplies)

\* Persist with the results of the run stored also when the save fails
PersistStoringOnFailure ==
    /\ pc = "ReadyToPersist"
    /\ \E reachable \in BOOLEAN :
         LET application_data == [applicant_data |-> combined_data,
                                  risk_assessment |-> risk_assessment,
                                  loan_amount |-> loan_amount]
             r == save_to_mongodb(application_data, collection, reachable)
         IN  /\ calls' = [calls EXCEPT !.save = @ + 1]
             /\ IF IsRaise(r)
                THEN /\ Fail(r)
                     /\ session_state' = [session_state EXCEPT
                                            !.combined_data = combined_data,
                                            !.risk_assessment = risk_assessment,
                                            !.processing_complete = TRUE]
                     /\ UNCHANGED <<application_id, collection>>
                ELSE /\ Goto("Complete")
                     /\ collection' = Append(collection, r.value.inserted)
                     /\ application_id' = r.value.id
                     /\ session_state' =
                          sync_uploads([session_state EXCEPT
                                          !.combined_data = combined_data,
                                          !.risk_assessment = risk_assessment,
                                          !.application_id = r.value.id,
                                          !.processing_complete = TRUE],
                                       uploader)
    /\ UNCHANGED <<uploader, today, loan_amount, identity_data, income_data, bank_data,
                   combined_data, risk_assessment, model_request, model_reply,
                   document_reply, run>>

\* lines 666-688: step 6, the session-state writes and the rerun
Persist ==
    /\ pc = "ReadyToPersist"
    /\ \E reachable \in BOOLEAN :
         LET application_data == [applicant_data |-> combined_data,
                                  risk_assessment |-> risk_assessment,
                                  loan_amount |-> loan_amount]
             r == save_to_mongodb(application_data, collection, reachable)
         IN  /\ calls' = [calls EXCEPT !.save = @ + 1]
             /\ IF IsRaise(r)
                THEN /\ Fail(r)
                     /\ UNCHANGED <<session_state, application_id, collection>>
                ELSE /\ Goto("Complete")
                     /\ collection' = Append(collection, r.value.inserted)
                     /\ application_id' = r.value.id
                     /\ session_state' =
                          sync_uploads([session_state EXCEPT
                                          !.combined_data = combined_data,
                                          !.risk_assessment = risk_assessment,
                                          !.application_id = r.value.id,
                                          !.processing_complete = TRUE],
                                       uploader)
    /\ UNCHANGED <<uploader, today, loan_amount, identity_data, income_data, bank_data,
                   combined_data, risk_assessment, model_request, model_reply,
                   document_reply, run>>

Next ==
    \/ \E slot \in Slots : Upload(slot)
    \/ \E slot \in Slots : Remove(slot)
    \/ Click
    \/ ExtractIdentity
    \/ ExtractIncome
    \/ ExtractBank
    \/ Combine
    \/ Score
    \/ Persist

Spec == Init /\ [][Next]_vars

\* ------------------------------------ combine_extracted_data on any records
AllFiles == [slot \in Slots |-> File(slot)]

InitCombine ==
    /\ uploader = AllFiles
    /\ session_state = sync_uploads(InitialSessionState, AllFiles)
    /\ pc = "Combine"
    /\ today \in Todays
    /\ loan_amount = Whole(15000)
    /\ identity_data \in AllIdentityRecords
    /\ income_data \in AllIncomeRecords
    /\ bank_data \in AllBankRecords
    /\ combined_data = None /\ risk_assessment = None /\ application_id = None
    /\ error = None
    /\ model_request = None /\ model_reply = None /\ document_reply = None
    /\ collection = <<>>
    /\ run = 1
    /\ calls = NoCalls
    /\ stages = <<"Combine">>

NextCombine == Combine

SpecCombine == InitCombine /\ [][NextCombine]_vars

\* ------------------------------------ analyze_risk on any profile and reply
\* profiles combine_extracted_data returns
RiskIncomeRecords ==
    {Dict(a @@ b) :
        a \in Opt("monthly_gross_income", {Whole(3000), Whole(2000), Whole(0), Whole(-100)}),
        b \in Opt("employment_start_date", {D_2020_01_15})}
RiskProfiles ==
    {r.value : r \in {c \in {combine_extracted_data(IdentityGood, income, bank, Today0) :
                               income \in RiskIncomeRecords, bank \in AllBankRecords} :
                        IsReturn(c)}}

InitRisk ==
    /\ uploader = AllFiles
    /\ session_state = sync_uploads(InitialSessionState, AllFiles)
    /\ pc = "Score"
    /\ today = Today0
    /\ loan_amount \in SliderAmounts
    /\ identity_data = None /\ income_data = None /\ bank_data = None
    /\ combined_data \in RiskProfiles
    /\ risk_assessment = None /\ application_id = None
    /\ error = None
    /\ model_request = None /\ model_reply = None /\ document_reply = None
    /\ collection = <<>>
    /\ run = 1
    /\ calls = NoCalls
    /\ stages = <<"Score">>

ScoreAny == ScoreWith(AllModelReplies)

NextRisk == ScoreAny

SpecRisk == InitRisk /\ [][NextRisk]_vars

\* -------------------------------- extract_document_data on any response
\* the annotations an image can carry: records, null, JSON text, other text
Annotations ==
    {BankFull, BankHolderOnly, None, Str(<<"review">>), Str(<<" ", "emptyobj", "\n">>),
     Str(<<"x">>), S_empty}
Images == {EmptyDict} \cup {Dict([image_annotation |-> a]) : a \in Annotations}
MaxImages == 2
ImageLists == UNION {[1..n -> Images] : n \in 0..MaxImages}
Pages ==
    {Dict(i @@ m) : i \in Opt("images", {List(l) : l \in ImageLists}),
                    m \in Opt("markdown", {S_raw})}
\* the pages that follow the first one
LaterPages ==
    {<<>>,
     <<Dict([images |-> List(<<Dict([image_annotation |-> BankNullPayments])>>),
             markdown |-> S_Ann])>>,
     <<EmptyDict>>}
AllExtractionReplies ==
    {Raise(e) : e \in RequestExceptions}
      \cup {Return(EmptyDict), NoPages}
      \cup {Return(Dict([pages |-> List(<<first>> \o later)])) :
              first \in Pages, later \in LaterPages}

InitExtract ==
    /\ uploader = AllFiles
    /\ session_state = sync_uploads(InitialSessionState, AllFiles)
    /\ pc = "ExtractBank"
    /\ today = Today0
    /\ loan_amount = Whole(15000)
    /\ identity_data = IdentityGood /\ income_data = IncomeGood /\ bank_data = None
    /\ combined_data = None /\ risk_assessment = None /\ application_id = None
    /\ error = None
    /\ model_request = None /\ model_reply = None /\ document_reply = None
    /\ collection = <<>>
    /\ run = 1
    /\ calls = NoCalls
    /\ stages = <<"ExtractBank">>

ExtractAny == ExtractBankWith(AllExtractionReplies)

NextExtract == ExtractAny

SpecExtract == InitExtract /\ [][NextExtract]_vars

\* ------------------------------------------------------------------ claims
ExtractionStages == {"ExtractIdentity", "ExtractIncome", "ExtractBank"}
HasError == error /= None
Field(v, key) == v.d[key]

\* C1's case: the call failed in transport, or the completion's text, its
\* code fences stripped, is no JSON
C1_CallFailed ==
    /\ model_reply /= None
    /\ \/ IsRaise(model_reply) /\ model_reply.exc \in {"ConnectionError", "HTTPError", "Timeout"}
       \/ \E c \in Contents : /\ model_reply = Completion(c)
                              /\ IsRaise(json_loads(StripFences(c.s)))

\* C1: when the reasoning-model call fails in transport or its completion
\* does not parse as JSON, analyze_risk returns score 100, HIGH, REJECT, the
\* ratio of phase 1, exactly one SYSTEM_ERROR flag of high severity and the
\* two suggested actions.
C1_SafeDefaultOnFailure ==
    C1_CallFailed =>
      /\ pc = "ReadyToPersist"
      /\ IsDict(risk_assessment)
      /\ Field(risk_assessment, "risk_score") = Whole(100)
      /\ Field(risk_assessment, "risk_level") = S_HIGH
      /\ Field(risk_assessment, "recommendation") = S_REJECT
      /\ Field(risk_assessment, "debt_to_income_ratio") = model_request.dti_ratio
      /\ Len(Field(risk_assessment, "flags").l) = 1
      /\ Field(Field(risk_assessment, "flags").l[1], "flag_type") = S_SYSTEM_ERROR
      /\ Field(Field(risk_assessment, "flags").l[1], "severity") = S_high
      /\ Field(risk_assessment, "suggested_actions") = List(<<S_Retry, S_Contact>>)

C1_Witness ==
    /\ model_reply = Completion(Str(Fence \o <<"\n", "x">>))
    /\ pc = "ReadyToPersist"
    /\ Field(risk_assessment, "recommendation") = S_REJECT
    /\ model_request.dti_ratio = Frac(50000, 300000)

\* C2: whatever the reasoning-model call comes to, analyze_risk returns an
\* assessment, so a run never fails at Score.
C2_ScoreNeverFails == HasError => error.stage /= "Score"

\* C3: once an extraction step of a run has failed, that run calls neither
\* combine_extracted_data nor analyze_risk nor save_to_mongodb, sends no
\* reasoning-model request and persists nothing.
C3_ExtractionFailureStopsRun ==
    (HasError /\ error.stage \in ExtractionStages) =>
      /\ pc = "Failed"
      /\ calls.combine = 0 /\ calls.model = 0 /\ calls.save = 0
      /\ combined_data = None /\ risk_assessment = None /\ application_id = None
      /\ model_request = None

C3_Witness ==
    /\ HasError /\ error.stage = "ExtractBank"
    /\ pc = "Failed"
    /\ calls.extraction = 3

\* C4: when save_to_mongodb fails after scoring, the profile and the
\* assessment of that run are held as the session's results and the report
\* of them is offered.
C4_ResultsKeptWhenSaveFails ==
    (HasError /\ error.stage = "ReadyToPersist") =>
      /\ session_state.combined_data = combined_data
      /\ session_state.risk_assessment = risk_assessment
      /\ results_shown(session_state)

\* the assessment has a score that is an integer in 0..100, a level and a
\* recommendation of the allowed values
WellFormedAssessment(a) ==
    /\ IsDict(a)
    /\ {"risk_score", "risk_level", "recommendation"} \subseteq DOMAIN a.d
    /\ IsNum(Field(a, "risk_score"))
    /\ Field(a, "risk_score").c % 100 = 0
    /\ Field(a, "risk_score").c >= 0 /\ Field(a, "risk_score").c <= 10000
    /\ Field(a, "risk_level") \in {S_LOW, S_MEDIUM, S_HIGH}
    /\ Field(a, "recommendation") \in {S_APPROVE, S_MANUAL_REVIEW, S_REJECT}

\* C5: every assessment analyze_risk returns, a run persists or the session
\* stores has risk_score an integer in 0..100, risk_level in LOW, MEDIUM,
\* HIGH and recommendation in APPROVE, MANUAL_REVIEW, REJECT.
C5_AssessmentWellFormed ==
    /\ pc \in {"ReadyToPersist", "Complete"} => WellFormedAssessment(risk_assessment)
    /\ session_state.processing_complete => WellFormedAssessment(session_state.risk_assessment)
    /\ \A i \in 1..Len(collection) : WellFormedAssessment(collection[i].risk_assessment)

NextStages(stage) ==
    CASE stage = "ExtractIdentity" -> {"ExtractIncome", "Failed"}
      [] stage = "ExtractIncome" -> {"ExtractBank", "Combine", "Failed"}
      [] stage = "ExtractBank" -> {"Combine", "Failed"}
      [] stage = "Combine" -> {"Score", "Failed"}
      [] stage = "Score" -> {"ReadyToPersist", "Failed"}
      [] stage = "ReadyToPersist" -> {"Complete", "Failed"}
      [] OTHER -> {}

\* C6: a run goes through the stages in the one order, identity, income,
\* optional bank statement, combine, score, persist, stored; enters no stage
\* twice; makes no call again after a failure; and sends at most three
\* extraction requests and one reasoning-model request.
C6_StagesInOrder ==
    /\ \A i \in 1..(Len(stages) - 1) : stages[i + 1] \in NextStages(stages[i])
    /\ \A i, j \in 1..Len(stages) : stages[i] = stages[j] => i = j
    /\ calls.extraction <= Cardinality({i \in 1..Len(stages) : stages[i] \in ExtractionStages})
    /\ calls.extraction <= 3 /\ calls.model <= 1
    /\ calls.combine <= 1 /\ calls.save <= 1
    /\ HasError => pc = "Failed"
    /\ pc = "Complete" =>
         /\ calls.save = 1
         /\ session_state.risk_assessment = risk_assessment
         /\ session_state.combined_data = combined_data

C6_Witness ==
    /\ run = 2
    /\ stages = <<"ExtractIdentity", "ExtractIncome", "ExtractBank", "Combine",
                  "Score", "ReadyToPersist", "Complete">>
    /\ calls.extraction = 3 /\ calls.model = 1

\* C7: combine_extracted_data returns a profile for every identity, income
\* and bank record an extraction can return, and raises nothing.
C7_CombineNeverFails == calls.combine = 1 => (pc = "Score" /\ IsDict(combined_data))

\* C8: in every profile combine_extracted_data returns, employment_months
\* is present and is an integer >= 0.
C8_EmploymentMonthsNotNegative ==
    (calls.combine = 1 /\ pc = "Score") =>
      /\ "employment_months" \in DOMAIN combined_data.d
      /\ IsNum(Field(combined_data, "employment_months"))
      /\ Field(combined_data, "employment_months").c % 100 = 0
      /\ Field(combined_data, "employment_months").c >= 0

\* C9: the ratio of phase 1, in the prompt and in the safe default, is
\* (recurring_loan_payments + 0.02 * loan_amount) / monthly_gross_income
\* when the gross income is > 0, and 1.0 otherwise.
C9_DebtToIncomeRatio ==
    model_request /= None =>
      LET gross == Get(combined_data, "monthly_gross_income", Whole(0))
          recurring == Get(combined_data, "recurring_loan_payments", Whole(0))
          dti == model_request.dti_ratio
      IN  /\ IsNumeric(gross) /\ IsNumeric(recurring)
          /\ IF Hundredths(gross) > 0
             THEN /\ loan_amount.c % 50 = 0
                  /\ dti.p = Hundredths(recurring) + (loan_amount.c \div 50)
                  /\ dti.q = Hundredths(gross)
             ELSE dti.p = dti.q /\ dti.q /= 0
          /\ model_reply \in TransportFailures =>
               Field(risk_assessment, "debt_to_income_ratio") = dti

\* gross 3000, recurring payments 200, loan 15000: payment 300, debt 500, 1/6
C9_Witness ==
    /\ model_request /= None
    /\ Get(combined_data, "monthly_gross_income", None) = Whole(3000)
    /\ Get(combined_data, "recurring_loan_payments", None) = Whole(200)
    /\ loan_amount = Whole(15000)
    /\ model_request.estimated_monthly_payment = Whole(300)
    /\ model_request.total_debt = Whole(500)
    /\ 6 * model_request.dti_ratio.p = model_request.dti_ratio.q

\* the employment_start_date the income record gives (line 188)
StartDateGiven == Get(income_data, "employment_start_date", S_empty)
StartDateParses == IsStr(StartDateGiven) /\ IsReturn(strptime(StartDateGiven))

\* C10: an employment_start_date that does not parse gives employment_months
\* 0 and the duration computation lets no exception out; one that parses
\* gives (now.year - start.year) * 12 + (now.month - start.month).
C10_EmploymentMonthsOfStartDate ==
    calls.combine = 1 =>
      /\ HasError => error.line \notin 187..196
      /\ pc = "Score" =>
           Field(combined_data, "employment_months") =
             IF StartDateParses
             THEN Whole((today.year - strptime(StartDateGiven).value.year) * 12
                        + (today.month - strptime(StartDateGiven).value.month))
             ELSE Whole(0)

C10_Witness ==
    /\ calls.combine = 1 /\ pc = "Score"
    /\ StartDateGiven = Whole(2020)
    /\ Field(combined_data, "employment_months") = Whole(0)

\* the four bank fields of the profile (lines 216-219 and 223-226)
BankFields == {"average_balance", "total_expenses", "recurring_loan_payments",
               "overdraft_occurrences"}

\* C11: with no bank record the profile has average_balance, total_expenses
\* and overdraft_occurrences null and recurring_loan_payments 0; with a bank
\* record, one without any of the four fields included, each of the four is
\* the record's value when the record has the field and 0 when it has not.
C11_BankFieldsOfRecord ==
    (calls.combine = 1 /\ pc = "Score") =>
      IF IsNone(bank_data)
      THEN /\ \A key \in BankFields \ {"recurring_loan_payments"} :
                Field(combined_data, key) = None
           /\ Field(combined_data, "recurring_loan_payments") = Whole(0)
      ELSE \A key \in BankFields :
             Field(combined_data, key) = Get(bank_data, key, Whole(0))

\* C12: the profile's monthly_net_income is the income record's net income
\* when the record has one, 70% of its gross income when the net income is
\* absent or null, and 0 when the gross income is absent too; neither
\* monthly_net_income nor monthly_gross_income is null in a profile.
C12_NetIncomeFallback ==
    (calls.combine = 1 /\ pc = "Score") =>
      LET net == Get(income_data, "monthly_net_income", None)
          gross == Get(income_data, "monthly_gross_income", None)
      IN  /\ Field(combined_data, "monthly_net_income") =
               IF ~IsNone(net) THEN net
               ELSE IF IsNum(gross) THEN Num((gross.c * 7) \div 10)
               ELSE Whole(0)
          /\ ~IsNone(Field(combined_data, "monthly_net_income"))
          /\ ~IsNone(Field(combined_data, "monthly_gross_income"))

\* the image carries an annotation
Carries(image) == "image_annotation" \in DOMAIN image.d
\* the images of a page that carry an annotation, in order
AnnotatedImages(page) ==
    IF "images" \in DOMAIN page.d THEN SelectSeq(page.d["images"].l, Carries) ELSE <<>>
\* the bank extraction has just acted on document_reply
BankExtractionDone ==
    /\ Len(stages) >= 2
    /\ stages[Len(stages) - 1] = "ExtractBank"
ExtractionReturned(record) ==
    /\ bank_data = record
    /\ HasError => error.line = 648
ExtractionFailed ==
    /\ pc = "Failed"
    /\ error = [stage |-> "ExtractBank", exc |-> "Exception", line |-> 169]

\* C13: for a successful response, extract_document_data returns the
\* annotation of the first image of the first page that carries one, parsed
\* when it is a string (and fails when the string is no JSON); with no such
\* image it returns the raw-text record of the first page's markdown; with
\* no pages, or a first page with neither, it fails.  Only the first page is
\* read.
C13_FirstPageAnnotationOrMarkdown ==
    (BankExtractionDone /\ IsReturn(document_reply)) =>
      LET result == document_reply.value
      IN  IF "pages" \notin DOMAIN result.d \/ Len(result.d["pages"].l) = 0
          THEN ExtractionFailed
          ELSE LET page == result.d["pages"].l[1]
                   annotated == AnnotatedImages(page)
               IN  IF annotated /= <<>>
                   THEN LET a == annotated[1].d["image_annotation"]
                        IN  IF ~IsStr(a) THEN ExtractionReturned(a)
                            ELSE IF IsReturn(json_loads(a.s))
                            THEN ExtractionReturned(json_loads(a.s).value)
                            ELSE ExtractionFailed
                   ELSE IF "markdown" \in DOMAIN page.d
                   THEN ExtractionReturned(
                          Dict([raw_text |-> page.d["markdown"],
                                document_type |-> DocumentTypeStr("bank_statement")]))
                   ELSE ExtractionFailed

\* two pages; the first image of the first page has no annotation, the
\* second carries JSON text: the parsed text is returned
C13_Witness ==
    /\ BankExtractionDone /\ IsReturn(document_reply)
    /\ PyLen(Get(document_reply.value, "pages", None)) = Return(2)
    /\ Get(document_reply.value.d["pages"].l[1], "images", None) =
         List(<<EmptyDict, Dict([image_annotation |-> Str(<<"review">>)])>>)
    /\ bank_data = JsonDocs["review"]
    /\ pc = "Combine"

\* the widget of the slot holds a document now
Supplied(slot) == ~IsNone(uploader[slot])
StageEntered(stage) == \E i \in DOMAIN stages : stages[i] = stage

\* C14: a run extracts a bank statement if and only if the bank uploader
\* holds a document when the run starts, a removed bank document is not
\* merged into a later profile, and a run starts only while the identity
\* and income uploaders both hold a document.  (The uploaders do not change
\* during a run.)
C14_BankExtractedIffSupplied ==
    pc \notin Resting =>
      /\ Supplied("identity") /\ Supplied("income")
      /\ pc = "ExtractBank" => Supplied("bank")
      /\ (pc = "Combine" /\ Supplied("bank")) => StageEntered("ExtractBank")
      /\ (pc = "Score" /\ ~Supplied("bank")) =>
           \A key \in BankFields \ {"recurring_loan_payments"} :
             Field(combined_data, key) = None

\* the record of the last run that completed
LastCompleted == collection[Len(collection)]

\* C15: the stored results are all unset, or all those of one run, the last
\* that completed, whose record was inserted; a failed run changes none of
\* them, so the results shown and the report offered after it are those of
\* the last completed run.
C15_StoredResultsOfLastCompletedRun ==
    IF ~session_state.processing_complete
    THEN /\ IsNone(session_state.combined_data)
         /\ IsNone(session_state.risk_assessment)
         /\ IsNone(session_state.application_id)
         /\ ~results_shown(session_state)
    ELSE /\ Len(collection) >= 1
         /\ session_state.application_id = ObjectId(Len(collection))
         /\ session_state.combined_data = LastCompleted.applicant_data
         /\ session_state.risk_assessment = LastCompleted.risk_assessment
         /\ LET report == generate_download_report(session_state.combined_data,
                                                   session_state.risk_assessment)
            IN  /\ report.applicant_data = LastCompleted.applicant_data
                /\ report.risk_assessment = LastCompleted.risk_assessment

\* the first run completed and is shown; the second scored differently and
\* failed at the save
C15_Witness ==
    /\ run = 2 /\ pc = "Failed" /\ error.stage = "ReadyToPersist"
    /\ results_shown(session_state)
    /\ Len(collection) = 1
    /\ session_state.application_id = S_oid1
    /\ risk_assessment /= session_state.risk_assessment
=============================================================================
